---- MODULE Spec2Model ----
(***************************************************************************)
(* Monte Carlo Localization particle filter (usc545mcl.py).                *)
(*                                                                         *)
(* Numbers.  World coordinates, velocities and ranges are integers (a      *)
(* fixed-point grid of world units); angles are integers counting quarter  *)
(* turns (k stands for k*pi/2), so that cos and sin are exact.  A float64  *)
(* weight is kept by its decimal exponent only: [k |-> "num", e |-> n]     *)
(* stands for a value of magnitude 10^n, [k |-> "zero"] for 0.0 and        *)
(* [k |-> "nan"] for NaN.  Products add exponents and underflow to zero    *)
(* below MinExp, as float64 does below 1e-324.                             *)
(***************************************************************************)
EXTENDS Integers, Sequences, FiniteSets, TLC

VARIABLES grid, num_particles, particles, heap, poses, last_timestamp,
          outcome, events, last_event, ray, query

vars == <<grid, num_particles, particles, heap, poses, last_timestamp,
          outcome, events, last_event, ray, query>>

(***************************************************************************)
(* Program constants                                                       *)
(***************************************************************************)
\* SENSOR_MODEL_VAR = 15
SENSOR_MODEL_VAR == 15

\* NUM_PARTICLES = 2000 in the source; scaled down to 2 so that populations
\* smaller than, equal to and larger than the constant can be enumerated.
NUM_PARTICLES == 2

\* Cell values of the map snapshot: 0 free, 100 occupied, -1 unknown.
FREE == 0
OCCUPIED == 100
UNKNOWN == -1

\* Smallest decimal exponent of a positive float64 (denormal 5e-324).
MinExp == -324

\* None (last_timestamp, last_odom_timestamp before the first message).
None == 0

\* NaN as a reading of scan_msg.ranges (valid readings are >= 0).
NanReading == -1

(***************************************************************************)
(* Bounds                                                                  *)
(***************************************************************************)
\* Ray casting is explored on grids of RayRows x RayCols cells with at most
\* MaxBlocked non-free cells, origin and target up to Margin cells outside.
\* Grid queries are explored on QCols x QRows grids, for world points up to
\* QReach cells beyond the grid on every side.
QCols == 2
QRows == 2
QReach == 2

\* The filter handles at most MaxEvents messages of the bag, scans of at
\* most MaxBeams beams, on maps of FCols x 1 cells.
MaxEvents == 3
MaxBeams == 2
FCols == 3

\* Initial sampling is explored on maps of SCols x 1 cells.
SCols == 2

\* Grid messages for construction: up to CSide columns and rows, cell arrays
\* of up to CLen cells.
CSide == 2
CLen == 4

\* Conversions are explored on maps of TCols x 1 cells with resolutions
\* 1..TRes.
TCols == 2
TRes == 3

RayCols == 3
RayRows == 2
MaxBlocked == 2
Margin == 1

(***************************************************************************)
(* Integer helpers                                                         *)
(***************************************************************************)
Abs(a) == IF a < 0 THEN -a ELSE a

\* ndarray.astype(np.int32) of a quotient: truncation toward zero.
TruncDiv(a, b) == IF a >= 0 THEN a \div b ELSE -((-a) \div b)

(***************************************************************************)
(* _CastRay                                                                *)
(***************************************************************************)
\* grid_data is [shape |-> <<rows, cols>>, flat |-> row-major cells].
\* The bounds test of lines 48-49.
InGrid(p, grid_data) ==
    /\ 0 <= p[1] /\ p[1] < grid_data.shape[2]
    /\ 0 <= p[2] /\ p[2] < grid_data.shape[1]

\* grid_data[y, x] for an in-bounds index.
CellAt(grid_data, y, x) == grid_data.flat[y * grid_data.shape[2] + x + 1]

\* Lines 39-46: the locals before the loop.  path records the cells visited.
RayInit(p0, p1, grid_data) ==
    LET delta == <<Abs(p1[1] - p0[1]), Abs(p1[2] - p0[2])>>
    IN [p0 |-> p0, p1 |-> p1, grid_data |-> grid_data,
        p |-> p0,
        n |-> 1 + delta[1] + delta[2],
        inc |-> <<IF p1[1] > p0[1] THEN 1 ELSE -1,
                  IF p1[2] > p0[2] THEN 1 ELSE -1>>,
        error |-> delta[1] - delta[2],
        delta |-> <<2 * delta[1], 2 * delta[2]>>,
        last_p |-> p0,
        i |-> 0,
        path |-> << >>,
        pc |-> "loop",
        how |-> "none",
        ret |-> p0]

\* Lines 56-61: advance one cell along x or along y.
RayAdvance(s) ==
    IF s.error > 0
    THEN [s EXCEPT !.p = <<s.p[1] + s.inc[1], s.p[2]>>,
                   !.error = s.error - s.delta[2]]
    ELSE [s EXCEPT !.p = <<s.p[1], s.p[2] + s.inc[2]>>,
                   !.error = s.error + s.delta[1]]

\* Variant of RayEdge: returns the cell that left the grid.
RayEdgeCurrent(s) == [s EXCEPT !.pc = "done", !.how = "edge", !.ret = s.p]

\* Line 50: leaving the grid returns the last in-bounds cell.
RayEdge(s) == [s EXCEPT !.pc = "done", !.how = "edge", !.ret = s.last_p]

\* Variant of RayBlocked: only an occupied cell stops the ray.
RayBlockedOccupiedOnly(s) == CellAt(s.grid_data, s.p[2], s.p[1]) = OCCUPIED

\* Lines 53-54: the test that stops the ray at a cell.
RayBlocked(s) == CellAt(s.grid_data, s.p[2], s.p[1]) # 0

\* Variant of RayExit: returns the walking cell instead of the target.
RayExitCurrent(s) == [s EXCEPT !.pc = "done", !.how = "end", !.ret = s.p]

\* Line 63: the loop ran out.
RayExit(s) == [s EXCEPT !.pc = "done", !.how = "end", !.ret = s.p1]

\* Lines 47-63: one pass of the loop (or the return after it).
RayIter(s) ==
    IF s.i >= s.n THEN RayExit(s)
    ELSE IF ~InGrid(s.p, s.grid_data) THEN RayEdge(s)
    ELSE LET v == [s EXCEPT !.last_p = s.p, !.path = Append(s.path, s.p)]
         IN IF RayBlocked(v)
            THEN [v EXCEPT !.pc = "done", !.how = "hit", !.ret = v.p]
            ELSE [RayAdvance(v) EXCEPT !.i = v.i + 1]

RECURSIVE RayRun(_)
RayRun(s) == IF s.pc = "done" THEN s ELSE RayRun(RayIter(s))

\* _CastRay(p0, p1, grid_data): the returned cell.
CastRay(p0, p1, grid_data) == RayRun(RayInit(p0, p1, grid_data)).ret


(***************************************************************************)
(* Pose and Grid                                                           *)
(***************************************************************************)
\* Pose(rotation, translation)
Pose(rotation, translation) ==
    [rotation |-> rotation, translation |-> translation]

\* Grid.__init__: grid_msg is [width, height, resolution, origin, data], the
\* origin already a Pose (Pose.FromGeometryMsg).
Grid(grid_msg) ==
    [cols |-> grid_msg.width,
     rows |-> grid_msg.height,
     resolution |-> grid_msg.resolution,
     map_t_extents |-> <<grid_msg.width * grid_msg.resolution,
                         grid_msg.height * grid_msg.resolution>>,
     world_T_map |-> grid_msg.origin,
     data |-> [shape |-> <<grid_msg.height, grid_msg.width>>,
               flat |-> grid_msg.data]]

\* Grid.WorldToGrid: (point - origin) / resolution, truncated by astype.
WorldToGrid(g, point) ==
    <<TruncDiv(point[1] - g.world_T_map.translation[1], g.resolution),
      TruncDiv(point[2] - g.world_T_map.translation[2], g.resolution)>>

\* Grid.GridToWorld without the translation of the origin.
GridToWorldNoOrigin(g, cell_index) ==
    <<g.resolution * cell_index[1], g.resolution * cell_index[2]>>

\* Grid.GridToWorld: resolution * cell_index + world_T_map.translation.
GridToWorld(g, cell_index) ==
    <<g.resolution * cell_index[1] + g.world_T_map.translation[1],
      g.resolution * cell_index[2] + g.world_T_map.translation[2]>>

\* ndarray indexing data[y, x]: an index k of an axis of length n is valid
\* for -n <= k < n and a negative k counts from the end; otherwise IndexError.
AxisOk(k, n) == (0 - n) <= k /\ k < n

AxisWrap(k, n) == IF k < 0 THEN k + n ELSE k

\* Grid.GetWorldCoords: the value of self.data[y, x], or the IndexError.
GetWorldCoords(g, point) ==
    LET c == WorldToGrid(g, point)
        x == c[1]
        y == c[2]
    IN IF AxisOk(y, g.data.shape[1]) /\ AxisOk(x, g.data.shape[2])
       THEN [raised |-> "none",
             value |-> CellAt(g.data, AxisWrap(y, g.data.shape[1]),
                                      AxisWrap(x, g.data.shape[2]))]
       ELSE [raised |-> "IndexError", value |-> 0]

(***************************************************************************)
(* Specification of the ray caster: inputs drawn in Init, one loop pass    *)
(* per step.                                                               *)
(***************************************************************************)
RayCells == {FREE, OCCUPIED, UNKNOWN}

RayFlats ==
    {f \in [1..(RayRows * RayCols) -> RayCells] :
        Cardinality({k \in 1..(RayRows * RayCols) : f[k] # FREE}) <= MaxBlocked}

RayGrids == {[shape |-> <<RayRows, RayCols>>, flat |-> f] : f \in RayFlats}

RayPoints == ((0 - Margin)..(RayCols - 1 + Margin))
                 \X ((0 - Margin)..(RayRows - 1 + Margin))

Idle == [pc |-> "idle"]

IdleParticles ==
    /\ num_particles = 0
    /\ particles = << >>
    /\ heap = << >>
    /\ poses = << >>
    /\ last_timestamp = None
    /\ outcome = "ok"
    /\ events = 0
    /\ last_event = Idle

IdleFilter == grid = Idle /\ IdleParticles

filterVars == <<grid, num_particles, particles, heap, poses, last_timestamp,
                outcome, events, last_event>>

InitRay ==
    /\ IdleFilter
    /\ query = Idle
    /\ \E g \in RayGrids : \E p0 \in RayPoints : \E p1 \in RayPoints :
          ray = RayInit(p0, p1, g)

RayStep ==
    /\ ray.pc = "loop"
    /\ ray' = RayIter(ray)
    /\ UNCHANGED <<filterVars, query>>

NextRay == RayStep

SpecRay == InitRay /\ [][NextRay]_vars

(***************************************************************************)
(* Properties of the ray caster                                            *)
(***************************************************************************)
AllFree(grid_data) ==
    \A k \in 1..Len(grid_data.flat) : grid_data.flat[k] = FREE

Between(a, lo, hi) ==
    (lo <= a /\ a <= hi) \/ (hi <= a /\ a <= lo)

InRect(p, p0, p1) ==
    Between(p[1], p0[1], p1[1]) /\ Between(p[2], p0[2], p1[2])

\* Number of steps of the walk along axis ax (1 = x, 2 = y).
StepsAlong(path, ax) ==
    Cardinality({k \in 1..(Len(path) - 1) : path[k + 1][ax] # path[k][ax]})

RayFreeCase ==
    /\ ray.pc # "idle"
    /\ AllFree(ray.grid_data)
    /\ InGrid(ray.p0, ray.grid_data)
    /\ InGrid(ray.p1, ray.grid_data)

\* C1: on an all-free grid, from an in-bounds origin to an in-bounds target,
\* _CastRay returns the target; every visited cell lies in the bounding
\* rectangle of origin and target, and the walk takes |dx| steps in x and
\* |dy| steps in y, never using the out-of-bounds or the hit return.
C1_FreeGridReturnsTarget ==
    RayFreeCase =>
        /\ (ray.pc = "loop" /\ ray.i < ray.n) => InRect(ray.p, ray.p0, ray.p1)
        /\ \A k \in 1..Len(ray.path) : InRect(ray.path[k], ray.p0, ray.p1)
        /\ ray.pc = "done" =>
              /\ ray.how = "end"
              /\ ray.ret = ray.p1
              /\ Len(ray.path) = ray.n
              /\ ray.path[ray.n] = ray.p1
              /\ StepsAlong(ray.path, 1) = Abs(ray.p1[1] - ray.p0[1])
              /\ StepsAlong(ray.path, 2) = Abs(ray.p1[2] - ray.p0[2])

C1_Witness ==
    /\ RayFreeCase
    /\ ray.pc = "done"
    /\ Abs(ray.p1[1] - ray.p0[1]) = 2
    /\ Abs(ray.p1[2] - ray.p0[2]) = 1

\* C2 (as claimed): for every origin and target, also an origin outside the
\* grid, the cell _CastRay returns lies inside the grid.
C2_ReturnInGridAlways ==
    ray.pc = "done" => InGrid(ray.ret, ray.grid_data)

\* C2 (amended): a ray that leaves the grid returns the last in-bounds cell
\* it visited; from an in-bounds origin the returned cell is in bounds for
\* every target, and from an origin outside the grid the origin is returned.
C2_ReturnInGridFromInside ==
    ray.pc = "done" =>
        /\ InGrid(ray.p0, ray.grid_data) => InGrid(ray.ret, ray.grid_data)
        /\ (ray.how = "edge" /\ ray.path # << >>) =>
              ray.ret = ray.path[Len(ray.path)]
        /\ ~InGrid(ray.p0, ray.grid_data) =>
              (ray.how = "edge" /\ ray.path = << >> /\ ray.ret = ray.p0)

C2_Witness ==
    /\ ray.pc = "done"
    /\ ray.how = "edge"
    /\ InGrid(ray.p0, ray.grid_data)
    /\ ~InGrid(ray.p1, ray.grid_data)
    /\ Len(ray.path) >= 2

\* C3 (as claimed): the ray stops only at occupied cells, so a hit that is
\* returned is a cell whose value is occupied (100).
C3_HitIsOccupied ==
    (ray.pc = "done" /\ ray.how = "hit") =>
        CellAt(ray.grid_data, ray.ret[2], ray.ret[1]) = OCCUPIED

\* C3 (amended): the ray stops at the first visited cell that is not free,
\* occupied or unknown alike; every cell visited before the returned hit,
\* and every visited cell when there is no hit, is free.
C3_HitIsFirstNonFree ==
    ray.pc = "done" =>
        /\ ray.how = "hit" =>
              /\ ray.ret = ray.path[Len(ray.path)]
              /\ CellAt(ray.grid_data, ray.ret[2], ray.ret[1]) # FREE
              /\ \A k \in 1..(Len(ray.path) - 1) :
                    CellAt(ray.grid_data, ray.path[k][2], ray.path[k][1]) = FREE
        /\ ray.how # "hit" =>
              \A k \in 1..Len(ray.path) :
                  CellAt(ray.grid_data, ray.path[k][2], ray.path[k][1]) = FREE

C3_Witness ==
    /\ ray.pc = "done"
    /\ ray.how = "hit"
    /\ Len(ray.path) >= 2
    /\ CellAt(ray.grid_data, ray.ret[2], ray.ret[1]) = UNKNOWN

(***************************************************************************)
(* Specification of the Grid accessors: a grid built in Init, then any     *)
(* sequence of queries.                                                    *)
(***************************************************************************)
QFlats == {f \in [1..(QRows * QCols) -> RayCells] :
              \E k \in 1..(QRows * QCols) : f[k] = FREE}

QOrigins == {<<0, 0>>, <<-3, 2>>}

QResolutions == {1, 2}

QGridMsgs ==
    {[width |-> QCols, height |-> QRows, resolution |-> r,
      origin |-> Pose(0, o), data |-> f] :
        r \in QResolutions, o \in QOrigins, f \in QFlats}

\* World points covering the grid and QReach cells around it.
QPoints(g) ==
    LET ox == g.world_T_map.translation[1]
        oy == g.world_T_map.translation[2]
    IN ((ox - QReach * g.resolution)..(ox + (g.cols + QReach) * g.resolution - 1))
        \X ((oy - QReach * g.resolution)..(oy + (g.rows + QReach) * g.resolution - 1))

InitGrid ==
    /\ \E m \in QGridMsgs : grid = Grid(m)
    /\ IdleParticles
    /\ ray = Idle
    /\ query = Idle

QueryGetWorldCoords ==
    /\ \E point \in QPoints(grid) :
          query' = [pc |-> "GetWorldCoords", point |-> point,
                    cell |-> WorldToGrid(grid, point),
                    result |-> GetWorldCoords(grid, point)]
    /\ UNCHANGED <<filterVars, ray>>

NextGrid == QueryGetWorldCoords

SpecGrid == InitGrid /\ [][NextGrid]_vars

\* C10: GetWorldCoords fails with an out-of-bounds error for every world
\* point whose cell index lies outside [0,cols) x [0,rows), negative indices
\* included; it never returns the state of another cell.
C10_OutOfBoundsFails ==
    (query.pc = "GetWorldCoords" /\ ~InGrid(query.cell, grid.data)) =>
        query.result.raised = "IndexError"

(***************************************************************************)
(* float64 by decimal exponent                                             *)
(***************************************************************************)
Num(e) == [k |-> "num", e |-> e]

Zero == [k |-> "zero", e |-> 0]

NaN == [k |-> "nan", e |-> 0]

\* a * b.  Exponents of weights never exceed 300, so no product overflows.
FMul(a, b) ==
    IF a.k = "nan" \/ b.k = "nan" THEN NaN
    ELSE IF a.k = "zero" \/ b.k = "zero" THEN Zero
    ELSE IF a.e + b.e < MinExp THEN Zero
    ELSE Num(a.e + b.e)

\* a / b for b >= a >= 0 (a weight over the sum of the weights); 0/0 is NaN.
FDiv(a, b) ==
    IF a.k = "nan" \/ b.k = "nan" THEN NaN
    ELSE IF b.k = "zero" THEN NaN
    ELSE IF a.k = "zero" THEN Zero
    ELSE IF a.e - b.e < MinExp THEN Zero
    ELSE Num(a.e - b.e)

\* np.sum of non-negative values: NaN if any is NaN, else the magnitude of
\* the largest (fewer than ten terms).
FSum(ws) ==
    IF \E i \in 1..Len(ws) : ws[i].k = "nan" THEN NaN
    ELSE IF \A i \in 1..Len(ws) : ws[i].k = "zero" THEN Zero
    ELSE LET nz == {i \in 1..Len(ws) : ws[i].k = "num"}
             top == CHOOSE i \in nz : \A j \in nz : ws[j].e <= ws[i].e
         IN Num(ws[top].e)

\* cos and sin of k quarter turns.
Cos4(k) == CASE k % 4 = 0 -> 1 [] k % 4 = 1 -> 0 [] k % 4 = 2 -> -1 [] OTHER -> 0

Sin4(k) == CASE k % 4 = 0 -> 0 [] k % 4 = 1 -> 1 [] k % 4 = 2 -> 0 [] OTHER -> -1

\* np.sqrt of a sum of squares (exact on the perfect squares that occur).
RECURSIVE SqrtFrom(_, _)
SqrtFrom(v, r) == IF (r + 1) * (r + 1) > v THEN r ELSE SqrtFrom(v, r + 1)

Sqrt(v) == SqrtFrom(v, 0)

(***************************************************************************)
(* _ComputeSimulatedRanges, RotateBy, Scan                                 *)
(***************************************************************************)
\* RotateBy(x, angle): the rotation matrix applied to the vector x.
RotateBy(x, angle) ==
    <<Cos4(angle) * x[1] - Sin4(angle) * x[2],
      Sin4(angle) * x[1] + Cos4(angle) * x[2]>>

\* np.linspace(a, b, num) (callers keep b - a a multiple of num - 1).
Linspace(a, b, num) ==
    [i \in 1..num |-> IF num = 1 THEN a ELSE a + ((i - 1) * (b - a)) \div (num - 1)]

\* Scan.__init__
Scan(scan_msg) ==
    [range_max |-> scan_msg.range_max,
     angles |-> Linspace(scan_msg.angle_min, scan_msg.angle_max,
                         Len(scan_msg.ranges)),
     ranges |-> scan_msg.ranges]

\* np.sum(np.square(hit_cell - src_cell))
SumSquares(a, b) == (a[1] - b[1]) * (a[1] - b[1]) + (a[2] - b[2]) * (a[2] - b[2])

\* _ComputeSimulatedRanges: one simulated range per beam.
ComputeSimulatedRanges(scan_angles, scan_range_max, world_t_map, map_t_particle, map_R_particle, grid_data, grid_resolution) ==
    LET src_cell == <<TruncDiv(map_t_particle[1] - world_t_map[1], grid_resolution),
                      TruncDiv(map_t_particle[2] - world_t_map[2], grid_resolution)>>
        angles == [i \in 1..Len(scan_angles) |-> scan_angles[i] + map_R_particle]
        max_points == [i \in 1..Len(scan_angles) |->
                          <<map_t_particle[1] + scan_range_max * Cos4(angles[i]),
                            map_t_particle[2] + scan_range_max * Sin4(angles[i])>>]
        max_cells == [i \in 1..Len(scan_angles) |->
                         <<TruncDiv(max_points[i][1] - world_t_map[1], grid_resolution),
                           TruncDiv(max_points[i][2] - world_t_map[2], grid_resolution)>>]
    IN [i \in 1..Len(max_cells) |->
           grid_resolution * Sqrt(SumSquares(CastRay(src_cell, max_cells[i], grid_data), src_cell))]

(***************************************************************************)
(* Particle                                                                *)
(***************************************************************************)
\* A store st = [heap, poses]: heap maps a Particle reference to the object
\* [map_T_particle (a Pose reference), last_odom_timestamp, weight], poses
\* maps a Pose reference to the Pose.  The grid every particle refers to is
\* never written and is kept once.

\* Line 364: the likelihood of one beam, as a decimal exponent:
\* log10(1 / (sqrt(2 pi) * 15)) is about -1.6, and exp(-0.5 (d/V)^2) loses
\* one decade per 4.6 V^2 of d^2 (2 ln 10 = 4.6).
BeamLikelihood(range, sim_range) ==
    IF range = NanReading THEN NaN
    ELSE LET d == range - sim_range
             e == (0 - 2) - (10 * d * d) \div (46 * SENSOR_MODEL_VAR * SENSOR_MODEL_VAR)
         IN IF e < MinExp THEN Zero ELSE Num(e)

\* Lines 362-365: the product over the beams, starting at 1.
RECURSIVE LikelihoodProduct(_, _, _)
LikelihoodProduct(ranges, sim_ranges, i) ==
    IF i = 0 THEN Num(0)
    ELSE FMul(LikelihoodProduct(ranges, sim_ranges, i - 1),
              BeamLikelihood(ranges[i], sim_ranges[i]))

\* Variant of GuardWeight: the product is stored as it is.
GuardWeightNone(weights) == weights

\* Lines 368-371: a zero product becomes 1e-300, any other is scaled by 1e300.
GuardWeight(weights) ==
    IF weights.k = "zero" THEN Num(0 - 300) ELSE FMul(weights, Num(300))

\* Particle.UpdateScan: the weight stored for a particle at pose.
SensorWeight(g, pose, scan) ==
    LET sim_ranges == ComputeSimulatedRanges(scan.angles, scan.range_max,
                          g.world_T_map.translation, pose.translation,
                          pose.rotation, g.data, g.resolution)
    IN GuardWeight(LikelihoodProduct(scan.ranges, sim_ranges, Len(scan.ranges)))

ParticleUpdateScan(st, g, ref, scan) ==
    [st EXCEPT !.heap[ref].weight =
        SensorWeight(g, st.poses[st.heap[ref].map_T_particle], scan)]

\* Particle.UpdateOdom with the three noise draws nz = <<nx, ny, nw>> (the
\* offsets of np.random.normal from its mean).
\* Particle.UpdateOdom taking the first time step from time 0 instead of
\* skipping it.
ParticleUpdateOdomFromZero(st, ref, odom_msg, nz) ==
    LET self == st.heap[ref]
        dt == odom_msg.stamp - self.last_odom_timestamp
        pose == st.poses[self.map_T_particle]
        vel_local == <<odom_msg.linear[1] + nz[1], odom_msg.linear[2] + nz[2]>>
        vel_map == RotateBy(vel_local, pose.rotation)
        velrot == odom_msg.angular + nz[3]
    IN [st EXCEPT
          !.heap[ref].last_odom_timestamp = odom_msg.stamp,
          !.poses[self.map_T_particle] =
              Pose(pose.rotation + velrot * dt,
                   <<pose.translation[1] + vel_map[1] * dt,
                     pose.translation[2] + vel_map[2] * dt>>)]

\* Particle.UpdateOdom with the rotation integrated before the translation.
ParticleUpdateOdomRotateFirst(st, ref, odom_msg, nz) ==
    LET self == st.heap[ref]
        dt == IF self.last_odom_timestamp # None
              THEN odom_msg.stamp - self.last_odom_timestamp
              ELSE 0
        pose == st.poses[self.map_T_particle]
        velrot == odom_msg.angular + nz[3]
        rotation == pose.rotation + velrot * dt
        vel_local == <<odom_msg.linear[1] + nz[1], odom_msg.linear[2] + nz[2]>>
        vel_map == RotateBy(vel_local, rotation)
    IN [st EXCEPT
          !.heap[ref].last_odom_timestamp = odom_msg.stamp,
          !.poses[self.map_T_particle] =
              Pose(rotation,
                   <<pose.translation[1] + vel_map[1] * dt,
                     pose.translation[2] + vel_map[2] * dt>>)]

\* Particle.UpdateOdom; nz is the noise the three np.random.normal calls add
\* to the velocities.
ParticleUpdateOdom(st, ref, odom_msg, nz) ==
    LET self == st.heap[ref]
        dt == IF self.last_odom_timestamp # None
              THEN odom_msg.stamp - self.last_odom_timestamp
              ELSE 0
        pose == st.poses[self.map_T_particle]
        vel_local == <<odom_msg.linear[1] + nz[1], odom_msg.linear[2] + nz[2]>>
        vel_map == RotateBy(vel_local, pose.rotation)
        velrot == odom_msg.angular + nz[3]
    IN [st EXCEPT
          !.heap[ref].last_odom_timestamp = odom_msg.stamp,
          !.poses[self.map_T_particle] =
              Pose(pose.rotation + velrot * dt,
                   <<pose.translation[1] + vel_map[1] * dt,
                     pose.translation[2] + vel_map[2] * dt>>)]

(***************************************************************************)
(* ParticleFilter                                                          *)
(***************************************************************************)
Store == [heap |-> heap, poses |-> poses]

\* The loop "for particle in self.particles: particle.UpdateOdom(odom_msg)",
\* slots k..Len(ps), slot i with the noise draws noise[i].
RECURSIVE OdomLoop(_, _, _, _, _)
OdomLoop(st, ps, odom_msg, noise, k) ==
    IF k > Len(ps) THEN st
    ELSE OdomLoop(ParticleUpdateOdom(st, ps[k], odom_msg, noise[k]),
                  ps, odom_msg, noise, k + 1)

\* The loop "for particle in self.particles: particle.UpdateScan(scan)".
RECURSIVE ScanLoop(_, _, _, _, _)
ScanLoop(st, g, ps, scan, k) ==
    IF k > Len(ps) THEN st
    ELSE ScanLoop(ParticleUpdateScan(st, g, ps[k], scan), g, ps, scan, k + 1)

\* Lines 436-442: the weights of slots 0..NUM_PARTICLES-1, normalized.
Prob(st, ps) ==
    LET prob == [i \in 1..NUM_PARTICLES |-> st.heap[ps[i]].weight]
    IN [i \in 1..NUM_PARTICLES |-> FDiv(prob[i], FSum(prob))]

\* np.random.choice(NUM_PARTICLES, NUM_PARTICLES, p=prob): the index vectors
\* it can return; an index of probability zero is never drawn.
Choices(prob) ==
    [1..NUM_PARTICLES -> {i \in 1..NUM_PARTICLES : prob[i].k = "num"}]

\* The largest reference in use (new objects are allocated above it).
MaxRef(S) == IF S = {} THEN 0 ELSE CHOOSE m \in S : \A r \in S : r <= m

\* Variant of CopyParticle: copy.copy, the new Particle shares the Pose.
CopyParticleShallow(st, ref, new_ref, new_pose_ref) ==
    [st EXCEPT !.heap = [r \in (DOMAIN st.heap) \cup {new_ref} |->
                            IF r = new_ref THEN st.heap[ref] ELSE st.heap[r]]]

\* Variant of CopyParticle: the copy starts without an odometry stamp, as a
\* newly constructed Particle does.
CopyParticleNoStamp(st, ref, new_ref, new_pose_ref) ==
    [heap |-> [r \in (DOMAIN st.heap) \cup {new_ref} |->
                  IF r = new_ref
                  THEN [st.heap[ref] EXCEPT !.map_T_particle = new_pose_ref,
                                            !.last_odom_timestamp = None]
                  ELSE st.heap[r]],
     poses |-> [q \in (DOMAIN st.poses) \cup {new_pose_ref} |->
                  IF q = new_pose_ref
                  THEN st.poses[st.heap[ref].map_T_particle]
                  ELSE st.poses[q]]]

\* Variant of CopyParticle: the copy starts from the uniform weight.
CopyParticleResetWeight(st, ref, new_ref, new_pose_ref) ==
    [heap |-> [r \in (DOMAIN st.heap) \cup {new_ref} |->
                  IF r = new_ref
                  THEN [st.heap[ref] EXCEPT !.map_T_particle = new_pose_ref,
                                            !.weight = Num(0 - 1)]
                  ELSE st.heap[r]],
     poses |-> [q \in (DOMAIN st.poses) \cup {new_pose_ref} |->
                  IF q = new_pose_ref
                  THEN st.poses[st.heap[ref].map_T_particle]
                  ELSE st.poses[q]]]

\* copy.deepcopy(particle): a new Particle new_ref with a new Pose
\* new_pose_ref, equal field by field to the particle ref.
CopyParticle(st, ref, new_ref, new_pose_ref) ==
    [heap |-> [r \in (DOMAIN st.heap) \cup {new_ref} |->
                  IF r = new_ref
                  THEN [st.heap[ref] EXCEPT !.map_T_particle = new_pose_ref]
                  ELSE st.heap[r]],
     poses |-> [q \in (DOMAIN st.poses) \cup {new_pose_ref} |->
                  IF q = new_pose_ref
                  THEN st.poses[st.heap[ref].map_T_particle]
                  ELSE st.poses[q]]]

\* Lines 452-454: new_particles, copy k of NUM_PARTICLES and the following.
RECURSIVE CopyLoop(_, _, _, _)
CopyLoop(st, ps, new_indices, k) ==
    IF k > NUM_PARTICLES THEN st
    ELSE CopyLoop(CopyParticle(st, ps[new_indices[k]],
                               MaxRef(DOMAIN st.heap) + 1,
                               MaxRef(DOMAIN st.poses) + 1),
                  ps, new_indices, k + 1)

\* Lines 456-457: slots 0..NUM_PARTICLES-1 take the new particles (the
\* references allocated after base, in order).
Replace(ps, base) ==
    [i \in 1..Len(ps) |-> IF i <= NUM_PARTICLES THEN base + i ELSE ps[i]]

\* Unreachable objects are dropped and the references renamed: an object is
\* named by the first slot of the list that reaches it.
FirstSlot(ps, r) ==
    CHOOSE i \in 1..Len(ps) : ps[i] = r /\ \A j \in 1..(i - 1) : ps[j] # r

FirstPoseSlot(ps, h, q) ==
    CHOOSE i \in 1..Len(ps) :
        /\ h[ps[i]].map_T_particle = q
        /\ \A j \in 1..(i - 1) : h[ps[j]].map_T_particle # q

Collect(ps, st) ==
    LET live == {FirstSlot(ps, ps[i]) : i \in 1..Len(ps)}
        livePoses == {FirstPoseSlot(ps, st.heap, st.heap[ps[i]].map_T_particle) :
                          i \in 1..Len(ps)}
    IN [particles |-> [i \in 1..Len(ps) |-> FirstSlot(ps, ps[i])],
        heap |-> [k \in live |->
                    [st.heap[ps[k]] EXCEPT
                        !.map_T_particle = FirstPoseSlot(ps, st.heap, @)]],
        poses |-> [k \in livePoses |-> st.poses[st.heap[ps[k]].map_T_particle]]]

(***************************************************************************)
(* Specification of the filter: main() builds the grid and the filter,     *)
(* then hands every message of the bag to UpdateOdom or UpdateScan.        *)
(***************************************************************************)
FFlats == {[k \in 1..FCols |-> FREE],
           [k \in 1..FCols |-> IF k = 2 THEN OCCUPIED ELSE FREE]}

FGridMsgs ==
    {[width |-> FCols, height |-> 1, resolution |-> 50,
      origin |-> Pose(0, <<0, 0>>), data |-> f] : f \in FFlats}

\* args.num_particles
PopulationSizes == (NUM_PARTICLES - 1)..(NUM_PARTICLES + 1)

\* Particle.__init__ without a pose: np.random.uniform(ll, ul) sampled at the
\* cell centres, kept when the cell is free; rotation from uniform(-pi, pi).
SamplePoints(g) ==
    {<<g.world_T_map.translation[1] + c[1] * g.resolution + g.resolution \div 2,
       g.world_T_map.translation[2] + c[2] * g.resolution + g.resolution \div 2>> :
        c \in (0..(g.cols - 1)) \X (0..(g.rows - 1))}

FreeSamples(g) ==
    {pt \in SamplePoints(g) : GetWorldCoords(g, pt) = [raised |-> "none", value |-> FREE]}

InitRotations == {0}

\* Particle.__init__: lines 203-206.
NewParticle(pose_ref) ==
    [map_T_particle |-> pose_ref, last_odom_timestamp |-> None, weight |-> Num(0)]

Init ==
    /\ \E m \in FGridMsgs : grid = Grid(m)
    /\ num_particles \in PopulationSizes
    /\ particles = [i \in 1..num_particles |-> i]
    /\ heap = [r \in 1..num_particles |-> NewParticle(r)]
    /\ \E init \in [1..num_particles -> FreeSamples(grid) \X InitRotations] :
          poses = [q \in 1..num_particles |-> Pose(init[q][2], init[q][1])]
    /\ last_timestamp = None
    /\ outcome = "ok"
    /\ events = 0
    /\ last_event = Idle
    /\ ray = Idle
    /\ query = Idle

\* Messages of the bag; a message is stamped with its position in the bag.
OdomMsgs(stamp) ==
    {[stamp |-> stamp, linear |-> t[1], angular |-> t[2]] :
        t \in {<<<<50, 0>>, 0>>, <<<<50, 0>>, 1>>}}

NoiseDraws == {<<0, 0, 0>>, <<-50, 0, 0>>}

Readings == {600, NanReading}

ScanMsgs(stamp) ==
    {[stamp |-> stamp, angle_min |-> 0, angle_max |-> 2, range_max |-> 600,
      ranges |-> r] :
        r \in UNION {[1..n -> Readings] : n \in {b \in 1..MaxBeams : 2 % (IF b = 1 THEN 1 ELSE b - 1) = 0}}}

Running == outcome = "ok" /\ events < MaxEvents

\* The outcome of UpdateScan on the population st (after the sensor update)
\* for the draw new_indices: the population once slots are replaced.
Resampled(st, ps, new_indices) ==
    Collect(Replace(ps, MaxRef(DOMAIN st.heap)), CopyLoop(st, ps, new_indices, 1))

\* The stamp of the most recent odometry message handled, None if none (a
\* record of the run kept in last_event; the program has no such field).
LastOdomStamp == IF last_event.pc = "idle" THEN None ELSE last_event.odom_stamp

\* ParticleFilter.UpdateOdom
UpdateOdom ==
    /\ Running
    /\ \E odom_msg \in OdomMsgs(events + 1) :
       \E noise \in [1..Len(particles) -> NoiseDraws] :
       \E st \in {OdomLoop(Store, particles, odom_msg, noise, 1)} :
          /\ last_timestamp' = IF last_timestamp = None
                               THEN odom_msg.stamp ELSE last_timestamp
          /\ heap' = st.heap
          /\ poses' = st.poses
          /\ last_event' = [pc |-> "odom", msg |-> odom_msg,
                            new_indices |-> << >>, noise |-> noise,
                            odom_stamp |-> odom_msg.stamp]
    /\ events' = events + 1
    /\ UNCHANGED <<grid, num_particles, particles, outcome, ray, query>>

\* ParticleFilter.UpdateScan
UpdateScan ==
    /\ Running
    /\ \E scan_msg \in ScanMsgs(events + 1) :
       \E weighted \in {ScanLoop(Store, grid, particles, Scan(scan_msg), 1)} :
          /\ last_timestamp' = IF last_timestamp = None
                               THEN scan_msg.stamp ELSE last_timestamp
          /\ IF Len(particles) < NUM_PARTICLES
             THEN \* self.particles[i] raises IndexError (line 440)
                  /\ outcome' = "IndexError"
                  /\ last_event' = [pc |-> "scan", msg |-> scan_msg, noise |-> << >>,
                                    odom_stamp |-> LastOdomStamp,
                                    new_indices |-> << >>]
                  /\ heap' = weighted.heap
                  /\ poses' = weighted.poses
                  /\ particles' = particles
             ELSE \E prob \in {Prob(weighted, particles)} :
                     IF \E i \in 1..NUM_PARTICLES : prob[i].k = "nan"
                     THEN \* np.random.choice rejects p (line 448)
                          /\ outcome' = "ValueError"
                          /\ last_event' = [pc |-> "scan", msg |-> scan_msg, noise |-> << >>,
                                    odom_stamp |-> LastOdomStamp,
                                            new_indices |-> << >>]
                          /\ heap' = weighted.heap
                          /\ poses' = weighted.poses
                          /\ particles' = particles
                     ELSE \E new_indices \in Choices(prob) :
                          \E kept \in {Resampled(weighted, particles, new_indices)} :
                             /\ outcome' = "ok"
                             /\ last_event' = [pc |-> "scan", msg |-> scan_msg, noise |-> << >>,
                                    odom_stamp |-> LastOdomStamp,
                                               new_indices |-> new_indices]
                             /\ particles' = kept.particles
                             /\ heap' = kept.heap
                             /\ poses' = kept.poses
    /\ events' = events + 1
    /\ UNCHANGED <<grid, num_particles, ray, query>>

Next == UpdateOdom \/ UpdateScan

Spec == Init /\ [][Next]_vars

(***************************************************************************)
(* Properties of the filter                                                *)
(***************************************************************************)
\* The pose, weight and timestamp of the particle in slot i.
PoseOf(st, ps, i) == st.poses[st.heap[ps[i]].map_T_particle]

WeightOf(st, ps, i) == st.heap[ps[i]].weight

StampOf(st, ps, i) == st.heap[ps[i]].last_odom_timestamp

\* The step handled a scan message / handled it to the end.
ScanHandled == events' = events + 1 /\ last_event'.pc = "scan"

ScanCompleted == ScanHandled /\ outcome' = "ok"

\* The population as the sensor update of the scan just handled left it.
Weighted == ScanLoop(Store, grid, particles, Scan(last_event'.msg), 1)

\* 1/N as a float: 1 for N = 1, between 0.1 and 1 otherwise.
UniformWeight(n) == IF n = 1 THEN Num(0) ELSE Num(0 - 1)

\* C4: the filter holds exactly N particles in every reachable state and
\* every UpdateScan completes its resampling step, for every N >= 1.
C4_PopulationKeptAndResampled ==
    /\ Len(particles) = num_particles
    /\ last_event.pc = "scan" => outcome = "ok"

\* C5 (as claimed): after the resampling step of UpdateScan every particle
\* has weight exactly 1/N.
C5_WeightsResetToUniform ==
    (last_event.pc = "scan" /\ outcome = "ok") =>
        \A i \in 1..Len(particles) :
            WeightOf(Store, particles, i) = UniformWeight(num_particles)

\* C5 (amended): after the resampling step of UpdateScan every particle of
\* the population carries the pose of a particle of the population before
\* the step together with the weight the sensor update computed for that
\* pose; the weight is copied with the particle and is not reset to 1/N.
C5_WeightsCarriedOver ==
    [][ScanCompleted =>
          \A i \in 1..Len(particles') :
              /\ \E j \in 1..Len(particles) :
                    /\ poses'[heap'[particles'[i]].map_T_particle]
                          = PoseOf(Store, particles, j)
                    /\ heap'[particles'[i]].weight
                          = SensorWeight(grid, PoseOf(Store, particles, j),
                                         Scan(last_event'.msg))
              /\ heap'[particles'[i]].weight # UniformWeight(num_particles)]_vars

C5_Witness ==
    /\ last_event.pc = "scan"
    /\ outcome = "ok"
    /\ num_particles = NUM_PARTICLES
    /\ last_event.new_indices[1] # last_event.new_indices[2]
    /\ WeightOf(Store, particles, 1) # WeightOf(Store, particles, 2)

\* The weights of the whole population, normalized.
FullProb(st, ps) ==
    LET w == [i \in 1..Len(ps) |-> WeightOf(st, ps, i)]
    IN [i \in 1..Len(ps) |-> FDiv(w[i], FSum(w))]

\* C6: when one particle holds normalized weight 1 and all others 0, every
\* particle of the population after the resampling step is a copy of that
\* particle's pose, for every population size and every draw.
C6_AllCopiesOfTheHeavyParticle ==
    [][ScanCompleted =>
          \A h \in 1..Len(particles) :
              (/\ FullProb(Weighted, particles)[h] = Num(0)
               /\ \A j \in 1..Len(particles) :
                     j # h => FullProb(Weighted, particles)[j] = Zero)
              => \A i \in 1..Len(particles') :
                     poses'[heap'[particles'[i]].map_T_particle]
                         = PoseOf(Store, particles, h)]_vars

\* C7: no two entries of the population refer to the same Particle or to the
\* same Pose object, so Particle.UpdateOdom on one particle, for any message
\* and noise, changes the pose, weight and timestamp of no other particle.
C7_NoAliasing ==
    \A i \in 1..Len(particles) : \A j \in 1..Len(particles) :
        i # j =>
            /\ particles[i] # particles[j]
            /\ heap[particles[i]].map_T_particle # heap[particles[j]].map_T_particle
            /\ \A odom_msg \in OdomMsgs(events + 1) : \A nz \in NoiseDraws :
                  LET st == ParticleUpdateOdom(Store, particles[i], odom_msg, nz)
                  IN /\ PoseOf(st, particles, j) = PoseOf(Store, particles, j)
                     /\ WeightOf(st, particles, j) = WeightOf(Store, particles, j)
                     /\ StampOf(st, particles, j) = StampOf(Store, particles, j)

\* One index was drawn twice, and the copies have received odometry before,
\* so that the next odometry message moves them.
C7_Witness ==
    /\ last_event.pc = "scan"
    /\ outcome = "ok"
    /\ last_event.new_indices[1] = last_event.new_indices[2]
    /\ StampOf(Store, particles, 1) # None
    /\ PoseOf(Store, particles, 1) = PoseOf(Store, particles, 2)

\* Every weight is zero or not finite.
DegenerateWeights(st, ps) ==
    \A i \in 1..Len(ps) : WeightOf(st, ps, i).k \in {"zero", "nan"}

\* C8: when the sensor update leaves every weight zero or non-finite,
\* UpdateScan does not fail and does not resample: the population and its
\* poses stay as they are and the weights become uniform.  (Stated for the
\* population size NUM_PARTICLES, where the weights are all read.)
C8_DegenerateWeightsRecovered ==
    [][(/\ ScanHandled
        /\ num_particles = NUM_PARTICLES
        /\ DegenerateWeights(Weighted, particles))
       => /\ outcome' = "ok"
          /\ particles' = particles
          /\ poses' = poses
          /\ \A i \in 1..Len(particles') :
                heap'[particles'[i]].weight = UniformWeight(num_particles)]_vars

\* C9: Particle.UpdateScan never stores a weight of exactly 0, so no scan
\* cycle ends with every weight equal to zero, also for scans that make
\* every beam likelihood zero.
C9_NoZeroWeight ==
    /\ \A r \in DOMAIN heap : heap[r].weight # Zero
    /\ last_event.pc = "scan" =>
          ~(\A i \in 1..Len(particles) : WeightOf(Store, particles, i) = Zero)

\* A scan whose likelihood product is zero for every particle was handled:
\* every particle holds the replacement value 1e-300.
C9_Witness ==
    /\ last_event.pc = "scan"
    /\ outcome = "ok"
    /\ \A i \in 1..Len(particles) : WeightOf(Store, particles, i) = Num(0 - 300)
    /\ \A b \in 1..Len(last_event.msg.ranges) : last_event.msg.ranges[b] # NanReading

(***************************************************************************)
(* Specification of the construction of the filter: ParticleFilter.__init__*)
(* builds num_particles particles, each by the sampling loop of            *)
(* Particle.__init__, one pass of the loop per step.                       *)
(***************************************************************************)
SGridMsgs ==
    {[width |-> SCols, height |-> 1, resolution |-> 2,
      origin |-> Pose(0, <<0, 0>>), data |-> f] :
        f \in [1..SCols -> RayCells]}

\* Lines 196-197: the draw lands on a cell that is free.
IsFreeDraw(g, translation) ==
    GetWorldCoords(g, translation) = [raised |-> "none", value |-> FREE]

InitSample ==
    /\ \E m \in SGridMsgs : grid = Grid(m)
    /\ num_particles \in PopulationSizes
    /\ particles = << >>
    /\ heap = << >>
    /\ poses = << >>
    /\ last_timestamp = None
    /\ outcome = "ok"
    /\ events = 0
    /\ last_event = Idle
    /\ ray = Idle
    /\ query = [pc |-> "sampling", translation |-> << >>]

\* Lines 195-198: a pass of "while not found" whose draw misses the free
\* cells; found is never set and the loop has no other exit.
SampleMiss ==
    /\ query.pc = "sampling"
    /\ \E translation \in SamplePoints(grid) :
          /\ ~IsFreeDraw(grid, translation)
          /\ query' = [pc |-> "sampling", translation |-> translation]
    /\ UNCHANGED <<filterVars, ray>>

\* Lines 195-206: a pass whose draw is a free cell: break, draw the rotation
\* and finish the Particle; line 382 appends it to the list.
SampleHit ==
    /\ query.pc = "sampling"
    /\ \E translation \in SamplePoints(grid) : \E rotation \in InitRotations :
          /\ IsFreeDraw(grid, translation)
          /\ particles' = Append(particles, Len(particles) + 1)
          /\ heap' = [r \in 1..(Len(particles) + 1) |->
                        IF r <= Len(particles) THEN heap[r] ELSE NewParticle(r)]
          /\ poses' = [q \in 1..(Len(particles) + 1) |->
                        IF q <= Len(particles) THEN poses[q]
                        ELSE Pose(rotation, translation)]
          /\ query' = [pc |-> IF Len(particles) + 1 = num_particles
                              THEN "done" ELSE "sampling",
                       translation |-> translation]
    /\ UNCHANGED <<grid, num_particles, last_timestamp, outcome, events,
                   last_event, ray>>

NextSample == SampleMiss \/ SampleHit

\* The loop keeps running, and a uniform draw over a map that has a free
\* cell lands on one sooner or later (probability 1).
SpecSample ==
    InitSample /\ [][NextSample]_vars /\ WF_vars(NextSample) /\ SF_vars(SampleHit)

\* C11: initial sampling always terminates: with a pose on a free cell for
\* every particle, or, on a map without a free cell, with the EmptyFreeSpace
\* error after a bounded number of attempts.
C11_SamplingTerminates ==
    <>(\/ query.pc = "EmptyFreeSpace"
       \/ /\ query.pc = "done"
          /\ \A i \in 1..Len(particles) : IsFreeDraw(grid, poses[i].translation))

HasFreeCell == \E k \in DOMAIN grid.data.flat : grid.data.flat[k] = FREE

\* The half of the statement that holds: on a map with a free cell the
\* sampling ends with every pose on a free cell.
SamplingEndsOnFreeSpace == HasFreeCell => C11_SamplingTerminates

(***************************************************************************)
(* Specification of the coordinate conversions of Grid.  The cells play no *)
(* part in them, so the maps are free and differ in origin and resolution. *)
(***************************************************************************)
TOrigins == {<<0, 0>>, <<-3, 2>>, <<5, -4>>}

TGridMsgs ==
    {[width |-> TCols, height |-> 1, resolution |-> r,
      origin |-> Pose(0, o), data |-> [k \in 1..TCols |-> FREE]] :
        r \in 1..TRes, o \in TOrigins}

InitConvert ==
    /\ \E m \in TGridMsgs : grid = Grid(m)
    /\ IdleParticles
    /\ ray = Idle
    /\ query = Idle

\* WorldToGrid for a world point.
QueryWorldToGrid ==
    /\ \E point \in QPoints(grid) :
          query' = [pc |-> "WorldToGrid", point |-> point,
                    cell |-> WorldToGrid(grid, point),
                    world |-> point]
    /\ UNCHANGED <<filterVars, ray>>

\* GridToWorld applied to the cell WorldToGrid returns for a world point.
QueryGridToWorld ==
    /\ \E point \in QPoints(grid) :
          query' = [pc |-> "GridToWorld", point |-> point,
                    cell |-> WorldToGrid(grid, point),
                    world |-> GridToWorld(grid, WorldToGrid(grid, point))]
    /\ UNCHANGED <<filterVars, ray>>

NextConvert == QueryWorldToGrid \/ QueryGridToWorld

SpecConvert == InitConvert /\ [][NextConvert]_vars

\* C13: for every grid (any origin, any positive resolution) and every world
\* point p, also left of or below the origin, GridToWorld(WorldToGrid(p))
\* differs from p by at most the resolution in each axis.
C13_RoundTripWithinOneCell ==
    query.pc = "GridToWorld" =>
        /\ Abs(query.world[1] - query.point[1]) <= grid.resolution
        /\ Abs(query.world[2] - query.point[2]) <= grid.resolution

C13_Witness ==
    /\ query.pc = "GridToWorld"
    /\ query.point[1] < grid.world_T_map.translation[1]
    /\ query.point[2] < grid.world_T_map.translation[2]
    /\ grid.world_T_map.translation # <<0, 0>>
    /\ query.world[1] # query.point[1]
    /\ query.world[2] # query.point[2]

\* floor((point - origin) / resolution) on both axes.
FloorCell(g, point) ==
    <<(point[1] - g.world_T_map.translation[1]) \div g.resolution,
      (point[2] - g.world_T_map.translation[2]) \div g.resolution>>

\* C17: WorldToGrid (and the same conversion of the source and end point in
\* _ComputeSimulatedRanges) computes floor((point - origin) / resolution), so
\* a point less than one cell left of or below the origin maps to index -1.
C17_CellIsFloor ==
    query.pc = "WorldToGrid" => query.cell = FloorCell(grid, query.point)

\* Where the conversion and floor agree: at and beyond the origin.
CellIsFloorFromOrigin ==
    (/\ query.pc = "WorldToGrid"
     /\ query.point[1] >= grid.world_T_map.translation[1]
     /\ query.point[2] >= grid.world_T_map.translation[2]) =>
        query.cell = FloorCell(grid, query.point)

(***************************************************************************)
(* Specification of Grid construction from an OccupancyGrid message: the   *)
(* message is drawn in the initial state and Grid.__init__ is one step.    *)
(***************************************************************************)
CFlats == UNION {[1..n -> {FREE, OCCUPIED}] : n \in 0..CLen}

CResolutions == {-1, 0, 1, 2}

CGridMsgs ==
    {[width |-> w, height |-> h, resolution |-> r,
      origin |-> Pose(0, <<0, 0>>), data |-> f] :
        w \in 1..CSide, h \in 1..CSide, r \in CResolutions, f \in CFlats}

\* ndarray.reshape(rows, cols) (lines 146-147) raises ValueError unless the
\* array holds rows * cols elements.
ReshapeOk(grid_msg) == Len(grid_msg.data) = grid_msg.height * grid_msg.width

InitConstruct ==
    /\ \E m \in CGridMsgs : query = [pc |-> "grid_msg", grid_msg |-> m]
    /\ grid = Idle
    /\ IdleParticles
    /\ ray = Idle

\* Grid.__init__, lines 137-147: the fields are copied from the message with
\* no test of their values; only reshape can raise.
ConstructGrid ==
    /\ query.pc = "grid_msg"
    /\ IF ReshapeOk(query.grid_msg)
       THEN /\ grid' = Grid(query.grid_msg)
            /\ query' = [query EXCEPT !.pc = "built"]
       ELSE /\ grid' = grid
            /\ query' = [query EXCEPT !.pc = "ValueError"]
    /\ UNCHANGED <<num_particles, particles, heap, poses, last_timestamp,
                   outcome, events, last_event, ray>>

NextConstruct == ConstructGrid

SpecConstruct == InitConstruct /\ [][NextConstruct]_vars

\* C12: Grid construction fails whenever the length of the cell array
\* differs from rows * cols or the resolution is not positive, so a Grid that
\* was constructed has len(cells) = rows * cols and resolution > 0.
C12_InvalidGridRejected ==
    query.pc # "grid_msg" =>
        (query.pc = "built" <=>
            /\ Len(query.grid_msg.data) = query.grid_msg.height * query.grid_msg.width
            /\ query.grid_msg.resolution > 0)

\* What the constructor does ensure: the cell array fills the shape.
ConstructedGridIsFull ==
    query.pc = "built" => Len(grid.data.flat) = grid.rows * grid.cols

\* The step handled an odometry message.
OdomHandled == events' = events + 1 /\ last_event'.pc = "odom"

\* The time step particle i takes for the message being handled.
StepOf(i) ==
    IF StampOf(Store, particles, i) = None THEN 0
    ELSE last_event'.msg.stamp - StampOf(Store, particles, i)

NewPoseOf(i) == poses'[heap'[particles'[i]].map_T_particle]

\* C14: with zero noise, Particle.UpdateOdom with time step dt computes
\* translation' = translation + R(rotation) (vx, vy) dt with the rotation
\* before the step, and rotation' = rotation + wz dt.
C14_ZeroNoiseMotion ==
    [][OdomHandled =>
        \A i \in 1..Len(particles) :
            last_event'.noise[i] = <<0, 0, 0>> =>
                LET old == PoseOf(Store, particles, i)
                    v == last_event'.msg.linear
                    wz == last_event'.msg.angular
                    c == Cos4(old.rotation)
                    s == Sin4(old.rotation)
                    dt == StepOf(i)
                IN /\ NewPoseOf(i).translation =
                        <<old.translation[1] + (c * v[1] - s * v[2]) * dt,
                          old.translation[2] + (s * v[1] + c * v[2]) * dt>>
                   /\ NewPoseOf(i).rotation = old.rotation + wz * dt]_vars

\* A particle that was turned a quarter turn has been driven forward by an
\* odometry message without noise, over a time step of at least 1: it has
\* left the row y = 25 of the initial samples.
C14_Witness ==
    /\ last_event.pc = "odom"
    /\ last_event.noise[1] = <<0, 0, 0>>
    /\ last_event.msg.linear = <<50, 0>>
    /\ last_event.msg.angular = 0
    /\ PoseOf(Store, particles, 1).rotation = 1
    /\ PoseOf(Store, particles, 1).translation[2] = 75

\* The pose the motion model gives from pose old for twist (v, wz) over dt.
Moved(old, v, wz, dt) ==
    Pose(old.rotation + wz * dt,
         <<old.translation[1]
             + (Cos4(old.rotation) * v[1] - Sin4(old.rotation) * v[2]) * dt,
           old.translation[2]
             + (Sin4(old.rotation) * v[1] + Cos4(old.rotation) * v[2]) * dt>>)

\* C15: the first odometry event a particle receives leaves its translation
\* and rotation unchanged for every odometry value and noise draw and still
\* sets last_odom_timestamp to the stamp; every later odometry event uses
\* dt = its stamp minus the stamp of the previous odometry event.
C15_FirstOdomOnlySetsTheStamp ==
    [][OdomHandled =>
        \A i \in 1..Len(particles) :
            LET msg == last_event'.msg
                nz == last_event'.noise[i]
                old == PoseOf(Store, particles, i)
            IN /\ heap'[particles'[i]].last_odom_timestamp = msg.stamp
               /\ StampOf(Store, particles, i) = None => NewPoseOf(i) = old
               /\ StampOf(Store, particles, i) # None =>
                    /\ LastOdomStamp # None
                    /\ NewPoseOf(i) =
                         Moved(old,
                               <<msg.linear[1] + nz[1], msg.linear[2] + nz[2]>>,
                               msg.angular + nz[3],
                               msg.stamp - LastOdomStamp)]_vars

\* A first odometry event with a twist and noise that would move the
\* particle has been handled: the stamp is set, the pose is the initial one.
C15_Witness ==
    /\ events = 1
    /\ last_event.pc = "odom"
    /\ last_event.msg.angular = 1
    /\ last_event.noise[1] = <<0, 0, 0>>
    /\ StampOf(Store, particles, 1) = 1
    /\ PoseOf(Store, particles, 1).rotation = 0

\* An odometry event at stamp 3 follows a scan at stamp 2 and an odometry
\* event at stamp 1: the particle has turned and advanced by two time steps.
C15_WitnessLater ==
    /\ events = 3
    /\ last_event.pc = "odom"
    /\ last_event.msg.angular = 1
    /\ last_event.noise[1] = <<0, 0, 0>>
    /\ PoseOf(Store, particles, 1).rotation = 2
    /\ PoseOf(Store, particles, 1).translation[2] = 25

\* The draw covers the population and every slot holds a copy of the
\* particle drawn for it.
WholePopulationReplaced ==
    /\ Len(last_event'.new_indices) = Len(particles)
    /\ Len(particles') = Len(particles)
    /\ \A i \in 1..Len(particles) :
          /\ last_event'.new_indices[i] \in 1..Len(particles)
          /\ NewPoseOf(i) =
                PoseOf(Weighted, particles, last_event'.new_indices[i])

\* C16: for every N given at construction a scan event replaces the entire
\* population: all N particles take part in the weighted draw and each of
\* the N slots is overwritten by a drawn copy, also when N differs from
\* NUM_PARTICLES.  (Scans whose weights are not numbers are left aside.)
C16_WholePopulationReplaced ==
    [][(ScanHandled /\ outcome' # "ValueError") => WholePopulationReplaced]_vars

\* What holds: the population is replaced as a whole when N = NUM_PARTICLES.
ReplacedWhenSizesAgree ==
    [][(ScanHandled /\ outcome' # "ValueError" /\ num_particles = NUM_PARTICLES)
          => WholePopulationReplaced]_vars

\* C18: after any interleaving of UpdateOdom and UpdateScan all particles
\* hold the same last_odom_timestamp, the stamp of the most recent odometry
\* event (None if there was none): resampling copies the stamp with the
\* particle, so no particle takes a step with dt = 0 again after its first
\* odometry event.
C18_StampsFollowOdometry ==
    /\ [](\A i \in 1..Len(particles) :
             StampOf(Store, particles, i) = LastOdomStamp)
    /\ [][(OdomHandled /\ LastOdomStamp # None) =>
             \A i \in 1..Len(particles) :
                 /\ StampOf(Store, particles, i) # None
                 /\ StepOf(i) = last_event'.msg.stamp - LastOdomStamp
                 /\ StepOf(i) > 0]_vars

\* A scan after an odometry event has resampled a population larger than
\* NUM_PARTICLES, two slots with copies of the same particle.
C18_Witness ==
    /\ last_event.pc = "scan"
    /\ outcome = "ok"
    /\ Len(particles) > NUM_PARTICLES
    /\ last_event.new_indices[1] = last_event.new_indices[2]
    /\ LastOdomStamp = 1
    /\ \A i \in 1..Len(particles) : StampOf(Store, particles, i) = 1

====
